---- MODULE Spec2Model ----
(***************************************************************************)
(* Model of src/main.rs: the render context `State` (size, surface         *)
(* configuration, pipeline, index data), its methods resize / input /      *)
(* update / render, and the closure handed to `event_loop.run`.            *)
(*                                                                         *)
(* The closure is translated arm by arm.  What calls the closure is the    *)
(* winit event loop; it is modelled by the order of events winit documents *)
(* for EventLoop::run:                                                     *)
(*     NewEvents, (window/device events)*, MainEventsCleared,              *)
(*     RedrawRequested (if a redraw was requested), RedrawEventsCleared,   *)
(*     then either the next cycle or, when control_flow is Exit,           *)
(*     LoopDestroyed.                                                      *)
(* ControlFlow::Exit is sticky: once the loop's control flow is Exit, a    *)
(* later assignment by the closure does not change it.                     *)
(*                                                                         *)
(* One step of the model is one invocation of the closure.  `calls` is the *)
(* ordered list of the method and library calls that invocation made.      *)
(***************************************************************************)
EXTENDS Integers, Sequences, FiniteSets

VARIABLES
    state,            \* the `State` struct owned by the closure
    control_flow,     \* the event loop's ControlFlow
    pc,               \* which event the loop delivers next
    redraw_requested, \* window.request_redraw() pending
    event,            \* the event of the current closure invocation
    calls,            \* calls made by the current closure invocation, in order
    render_result     \* result of state.render() in this invocation, or "None"

vars == <<state, control_flow, pc, redraw_requested, event, calls, render_result>>

\* Largest window dimension delivered by the window system (0 is delivered too).
MaxDim == 2

Dims == 0..MaxDim

\* Formats surface.get_preferred_format(&adapter) may answer.
TextureFormats == {"Bgra8UnormSrgb", "Rgba8UnormSrgb"}

PhysicalSize(w, h) == [width |-> w, height |-> h]

\* One entry of `calls`: the callee and up to two integer arguments.
Call(op, a, b) == [op |-> op, a |-> a, b |-> b]

RECURSIVE Count(_, _)
Count(s, op) ==
    IF s = <<>> THEN 0
    ELSE (IF Head(s).op = op THEN 1 ELSE 0) + Count(Tail(s), op)

-----------------------------------------------------------------------------
(* Static geometry *)

VERTICES == <<"A", "B", "C", "D", "E">>

INDICES_padded_to_12 == <<0, 1, 4, 1, 2, 4, 2, 3, 4, 0, 0, 0>>

INDICES == <<0, 1, 4, 1, 2, 4, 2, 3, 4, 0>>

\* Position (1-based) of the entry marked /* padding */ in INDICES.
PaddingPos == 10

\* PrimitiveTopology::TriangleList over the index range first..last-1
\* (0-based, end exclusive): every three consecutive indices form one
\* triangle; a trailing incomplete group forms none.  The result is the set
\* of triangles, each the triple of 1-based positions in the index sequence.
TriangleList(first, last) ==
    { <<first + 3 * k + 1, first + 3 * k + 2, first + 3 * k + 3>> :
        k \in 0..(((last - first) \div 3) - 1) }

-----------------------------------------------------------------------------
(* State::new *)

\* The State built for a window of inner size `size` with preferred format
\* `format`.  `surface` is the configuration the surface was last configured
\* with.
new(size, format) ==
    LET config == [format |-> format,
                   width |-> size.width,
                   height |-> size.height,
                   present_mode |-> "Fifo"]
    IN [surface |-> config,
        config |-> config,
        size |-> size,
        render_pipeline |-> [format |-> config.format,
                             topology |-> "TriangleList"],
        num_indices |-> Len(INDICES)]

-----------------------------------------------------------------------------
(* State methods.  Each yields the new State and the calls it made. *)

resize_unguarded(self, new_size) ==
    LET config == [self.config EXCEPT !.width = new_size.width,
                                      !.height = new_size.height]
    IN [self |-> [self EXCEPT !.size = new_size,
                              !.config = config,
                              !.surface = config],
        calls |-> <<Call("configure", config.width, config.height)>>]

resize_keeps_config_height(self, new_size) ==
    IF new_size.width > 0 /\ new_size.height > 0
    THEN LET config == [self.config EXCEPT !.width = new_size.width]
         IN [self |-> [self EXCEPT !.size = new_size,
                                   !.config = config,
                                   !.surface = config],
             calls |-> <<Call("configure", config.width, config.height)>>]
    ELSE [self |-> self, calls |-> <<>>]

resize(self, new_size) ==
    IF new_size.width > 0 /\ new_size.height > 0
    THEN LET config == [self.config EXCEPT !.width = new_size.width,
                                           !.height = new_size.height]
         IN [self |-> [self EXCEPT !.size = new_size,
                                   !.config = config,
                                   !.surface = config],
             calls |-> <<Call("configure", config.width, config.height)>>]
    ELSE [self |-> self, calls |-> <<>>]

input(self, ev) == FALSE

update(self) == self

SurfaceErrors == {"Lost", "Outdated", "Timeout", "OutOfMemory"}

\* What surface.get_current_texture() may answer.
AcquireResults == {"Ok"} \cup SurfaceErrors

render_draws_twice(self, acquired) ==
    IF acquired # "Ok"
    THEN [result |-> acquired,
          calls |-> <<Call("get_current_texture", 0, 0)>>]
    ELSE [result |-> "Ok",
          calls |-> <<Call("get_current_texture", 0, 0),
                      Call("create_view", 0, 0),
                      Call("create_command_encoder", 0, 0),
                      Call("begin_render_pass", 0, 0),
                      Call("set_pipeline", 0, 0),
                      Call("set_vertex_buffer", 0, 0),
                      Call("set_index_buffer", 0, 0),
                      Call("draw_indexed", 0, self.num_indices),
                      Call("draw_indexed", 0, self.num_indices),
                      Call("submit", 0, 0),
                      Call("present", 0, 0)>>]

\* `acquired` is the answer of surface.get_current_texture(); the `?`
\* returns an error at once.
render(self, acquired) ==
    IF acquired # "Ok"
    THEN [result |-> acquired,
          calls |-> <<Call("get_current_texture", 0, 0)>>]
    ELSE [result |-> "Ok",
          calls |-> <<Call("get_current_texture", 0, 0),
                      Call("create_view", 0, 0),
                      Call("create_command_encoder", 0, 0),
                      Call("begin_render_pass", 0, 0),
                      Call("set_pipeline", 0, 0),
                      Call("set_vertex_buffer", 0, 0),
                      Call("set_index_buffer", 0, 0),
                      Call("draw_indexed", 0, self.num_indices),
                      Call("submit", 0, 0),
                      Call("present", 0, 0)>>]

-----------------------------------------------------------------------------
(* Events *)

\* window.id() of the one window the program builds, and an id that is not it.
WindowId == "window"
WindowIds == {WindowId, "other"}

WindowEvent(kind, w, h, st, key, mods) ==
    [kind |-> kind, width |-> w, height |-> h,
     state |-> st, virtual_keycode |-> key, modifiers |-> mods]

NoWindowEvent == WindowEvent("-", 0, 0, "-", "-", "-")

ElementStates == {"Pressed", "Released"}
VirtualKeyCodes == {"Escape", "Space", "None"}
ModifiersStates == {"empty", "SHIFT"}

\* The WindowEvent variants the window system delivers; CursorMoved stands for
\* every variant the closure has no arm for.
WindowEvents ==
    { WindowEvent("Resized", w, h, "-", "-", "-") : w \in Dims, h \in Dims }
    \cup
    { WindowEvent("ScaleFactorChanged", w, h, "-", "-", "-") : w \in Dims, h \in Dims }
    \cup
    { WindowEvent("CloseRequested", 0, 0, "-", "-", "-"),
      WindowEvent("CursorMoved", 0, 0, "-", "-", "-") }
    \cup
    { WindowEvent("KeyboardInput", 0, 0, st, key, mods) :
        st \in ElementStates, key \in VirtualKeyCodes, mods \in ModifiersStates }

Event(kind, window_id, wev) == [kind |-> kind, window_id |-> window_id, event |-> wev]

PlainEvent(kind) == Event(kind, "-", NoWindowEvent)

-----------------------------------------------------------------------------
(* The closure given to event_loop.run.  Every arm yields the new State, the  *)
(* value the closure leaves in *control_flow, the calls made and the result   *)
(* of render ("None" when render was not called).                             *)

Outcome(self, cf, cs, rr) ==
    [self |-> self, control_flow |-> cf, calls |-> cs, render_result |-> rr]

\* Variants of the redraw arm, each with one slip.
OnRedrawRequested_oom_as_lost(self, acquired) ==
    LET s1 == update(self)
        r == render(s1, acquired)
        done == <<Call("update", 0, 0), Call("render", 0, 0)>> \o r.calls
    IN CASE r.result = "Ok" ->
              Outcome(s1, "Wait", done, r.result)
         [] r.result \in {"Lost", "OutOfMemory"} ->
              LET z == resize(s1, s1.size)
              IN Outcome(z.self, "Wait",
                         done \o <<Call("resize", s1.size.width, s1.size.height)>>
                              \o z.calls,
                         r.result)
         [] OTHER ->
              Outcome(s1, "Wait", done \o <<Call("eprintln", 0, 0)>>, r.result)

OnRedrawRequested_lost_only_logged(self, acquired) ==
    LET s1 == update(self)
        r == render(s1, acquired)
        done == <<Call("update", 0, 0), Call("render", 0, 0)>> \o r.calls
    IN CASE r.result = "Ok" ->
              Outcome(s1, "Wait", done, r.result)
         [] r.result = "OutOfMemory" ->
              Outcome(s1, "Exit", done, r.result)
         [] OTHER ->
              Outcome(s1, "Wait", done \o <<Call("eprintln", 0, 0)>>, r.result)

OnRedrawRequested_outdated_as_lost(self, acquired) ==
    LET s1 == update(self)
        r == render(s1, acquired)
        done == <<Call("update", 0, 0), Call("render", 0, 0)>> \o r.calls
    IN CASE r.result = "Ok" ->
              Outcome(s1, "Wait", done, r.result)
         [] r.result \in {"Lost", "Outdated"} ->
              LET z == resize(s1, s1.size)
              IN Outcome(z.self, "Wait",
                         done \o <<Call("resize", s1.size.width, s1.size.height)>>
                              \o z.calls,
                         r.result)
         [] r.result = "OutOfMemory" ->
              Outcome(s1, "Exit", done, r.result)
         [] OTHER ->
              Outcome(s1, "Wait", done \o <<Call("eprintln", 0, 0)>>, r.result)

OnRedrawRequested(self, acquired) ==
    LET s1 == update(self)
        r == render(s1, acquired)
        done == <<Call("update", 0, 0), Call("render", 0, 0)>> \o r.calls
    IN CASE r.result = "Ok" ->
              Outcome(s1, "Wait", done, r.result)
         [] r.result = "Lost" ->
              LET z == resize(s1, s1.size)
              IN Outcome(z.self, "Wait",
                         done \o <<Call("resize", s1.size.width, s1.size.height)>>
                              \o z.calls,
                         r.result)
         [] r.result = "OutOfMemory" ->
              Outcome(s1, "Exit", done, r.result)
         [] OTHER ->
              Outcome(s1, "Wait", done \o <<Call("eprintln", 0, 0)>>, r.result)

OnMainEventsCleared_no_request(self) ==
    Outcome(self, "Wait", <<>>, "None")

OnMainEventsCleared(self) ==
    Outcome(self, "Wait", <<Call("request_redraw", 0, 0)>>, "None")

\* Variants of the window-event arm, each with one slip.
OnWindowEvent_close_only(self, wev) ==
    LET asked == <<Call("input", 0, 0)>>
    IN CASE wev.kind \in {"Resized", "ScaleFactorChanged"} ->
              LET z == resize(self, PhysicalSize(wev.width, wev.height))
              IN Outcome(z.self, "Wait",
                         asked \o <<Call("resize", wev.width, wev.height)>>
                               \o z.calls,
                         "None")
         [] wev.kind = "CloseRequested" ->
              Outcome(self, "Exit", asked, "None")
         [] OTHER ->
              Outcome(self, "Wait", asked, "None")

OnWindowEvent_any_escape_state(self, wev) ==
    LET asked == <<Call("input", 0, 0)>>
    IN CASE wev.kind \in {"Resized", "ScaleFactorChanged"} ->
              LET z == resize(self, PhysicalSize(wev.width, wev.height))
              IN Outcome(z.self, "Wait",
                         asked \o <<Call("resize", wev.width, wev.height)>>
                               \o z.calls,
                         "None")
         [] \/ wev.kind = "CloseRequested"
            \/ /\ wev.kind = "KeyboardInput"
               /\ wev.virtual_keycode = "Escape" ->
              Outcome(self, "Exit", asked, "None")
         [] OTHER ->
              Outcome(self, "Wait", asked, "None")

OnWindowEvent(self, wev) ==
    LET asked == <<Call("input", 0, 0)>>
    IN IF ~input(self, wev)
       THEN CASE wev.kind = "Resized" ->
                   LET z == resize(self, PhysicalSize(wev.width, wev.height))
                   IN Outcome(z.self, "Wait",
                              asked \o <<Call("resize", wev.width, wev.height)>>
                                    \o z.calls,
                              "None")
              [] wev.kind = "ScaleFactorChanged" ->
                   LET z == resize(self, PhysicalSize(wev.width, wev.height))
                   IN Outcome(z.self, "Wait",
                              asked \o <<Call("resize", wev.width, wev.height)>>
                                    \o z.calls,
                              "None")
              [] \/ wev.kind = "CloseRequested"
                 \/ /\ wev.kind = "KeyboardInput"
                    /\ wev.state = "Pressed"
                    /\ wev.virtual_keycode = "Escape" ->
                   Outcome(self, "Exit", asked, "None")
              [] OTHER ->
                   Outcome(self, "Wait", asked, "None")
       ELSE Outcome(self, "Wait", asked, "None")

\* The closure with the redraw arm also taken for RedrawEventsCleared.
closure_redraws_on_cleared(self, ev, acquired) ==
    CASE ev.kind \in {"RedrawRequested", "RedrawEventsCleared"} ->
           OnRedrawRequested(self, acquired)
      [] ev.kind = "MainEventsCleared" -> OnMainEventsCleared(self)
      [] ev.kind = "WindowEvent" /\ ev.window_id = WindowId ->
           OnWindowEvent(self, ev.event)
      [] OTHER -> Outcome(self, "Wait", <<>>, "None")

closure(self, ev, acquired) ==
    CASE ev.kind = "RedrawRequested" -> OnRedrawRequested(self, acquired)
      [] ev.kind = "MainEventsCleared" -> OnMainEventsCleared(self)
      [] ev.kind = "WindowEvent" /\ ev.window_id = WindowId ->
           OnWindowEvent(self, ev.event)
      [] OTHER -> Outcome(self, "Wait", <<>>, "None")

-----------------------------------------------------------------------------
(* event_loop.run *)

\* One invocation of the closure with event `ev`; `acquired` is what
\* get_current_texture answers should the closure call render.  The loop's
\* control flow takes the closure's value unless it is already Exit.
Deliver(ev, acquired) ==
    LET out == closure(state, ev, acquired)
    IN /\ state' = out.self
       /\ control_flow' = IF control_flow = "Exit" THEN "Exit" ELSE out.control_flow
       /\ event' = ev
       /\ calls' = out.calls
       /\ render_result' = out.render_result
       /\ redraw_requested' =
             IF ev.kind = "RedrawRequested"
             THEN Count(out.calls, "request_redraw") > 0
             ELSE redraw_requested \/ Count(out.calls, "request_redraw") > 0

\* The window's inner size is positive when State::new reads it.
Init ==
    /\ state \in { new(PhysicalSize(w, h), f) :
                     w \in 1..MaxDim, h \in 1..MaxDim, f \in TextureFormats }
    /\ control_flow = "Poll"
    /\ pc = "NewEvents"
    /\ redraw_requested = FALSE
    /\ event = PlainEvent("-")
    /\ calls = <<>>
    /\ render_result = "None"

NewEvents ==
    /\ pc = "NewEvents"
    /\ Deliver(PlainEvent("NewEvents"), "Ok")
    /\ pc' = "Events"

WindowEventDelivered ==
    /\ pc = "Events"
    /\ \E id \in WindowIds, wev \in WindowEvents :
          Deliver(Event("WindowEvent", id, wev), "Ok")
    /\ pc' = "Events"

DeviceEventDelivered ==
    /\ pc = "Events"
    /\ Deliver(PlainEvent("DeviceEvent"), "Ok")
    /\ pc' = "Events"

MainEventsCleared ==
    /\ pc = "Events"
    /\ Deliver(PlainEvent("MainEventsCleared"), "Ok")
    /\ pc' = "RedrawRequested"

RedrawRequested ==
    /\ pc = "RedrawRequested"
    /\ redraw_requested
    /\ \E acquired \in AcquireResults :
          Deliver(Event("RedrawRequested", WindowId, NoWindowEvent), acquired)
    /\ pc' = "RedrawEventsCleared"

RedrawEventsCleared ==
    /\ \/ pc = "RedrawEventsCleared"
       \/ pc = "RedrawRequested" /\ ~redraw_requested
    /\ Deliver(PlainEvent("RedrawEventsCleared"), "Ok")
    /\ pc' = IF control_flow' = "Exit" THEN "LoopDestroyed" ELSE "NewEvents"

LoopDestroyed ==
    /\ pc = "LoopDestroyed"
    /\ Deliver(PlainEvent("LoopDestroyed"), "Ok")
    /\ pc' = "Done"

Next ==
    \/ NewEvents
    \/ WindowEventDelivered
    \/ DeviceEventDelivered
    \/ MainEventsCleared
    \/ RedrawRequested
    \/ RedrawEventsCleared
    \/ LoopDestroyed

Spec == Init /\ [][Next]_vars

\* The loop keeps running: an event that is due is delivered, and the window
\* system does not send window and device events forever without the
\* events-cleared event of the cycle.
FairSpec == Spec /\ WF_vars(Next) /\ WF_vars(MainEventsCleared)

-----------------------------------------------------------------------------
(* Properties *)

Made(cs, op) == Count(cs, op)

\* A Resized or ScaleFactorChanged event for the program's window.
IsResizeEvent(ev) ==
    /\ ev.kind = "WindowEvent"
    /\ ev.window_id = WindowId
    /\ ev.event.kind \in {"Resized", "ScaleFactorChanged"}

ZeroSized(ev) == ev.event.width = 0 \/ ev.event.height = 0

IsCloseRequest(ev) ==
    /\ ev.kind = "WindowEvent"
    /\ ev.window_id = WindowId
    /\ ev.event.kind = "CloseRequested"

\* A press of Escape for the program's window, whatever the modifiers.
IsEscapePress(ev) ==
    /\ ev.kind = "WindowEvent"
    /\ ev.window_id = WindowId
    /\ ev.event.kind = "KeyboardInput"
    /\ ev.event.state = "Pressed"
    /\ ev.event.virtual_keycode = "Escape"

IsPlainEscapePress(ev) == IsEscapePress(ev) /\ ev.event.modifiers = "empty"

IsRedraw(ev) == ev.kind = "RedrawRequested"

\* The invocation called update() and then render(), once each.
UpdateThenRender(cs) ==
    /\ Made(cs, "update") = 1
    /\ Made(cs, "render") = 1
    /\ Len(cs) >= 2
    /\ cs[1].op = "update"
    /\ cs[2].op = "render"

\* C1: a resize event with a zero width or height calls resize, which leaves
\* the stored size, the surface configuration and the configured surface as
\* they were and makes no configure call.
C1_ZeroResizeChangesNothing ==
    [][ (IsResizeEvent(event') /\ ZeroSized(event'))
          => /\ Made(calls', "resize") = 1
             /\ Made(calls', "configure") = 0
             /\ state'.size = state.size
             /\ state'.config = state.config
             /\ state'.surface = state.surface ]_vars

C1_Witness ==
    /\ IsResizeEvent(event)
    /\ ZeroSized(event)
    /\ Made(calls, "resize") = 1

\* C2 as stated: once a close request or an Escape press has set the control
\* flow to Exit (before the redraw of a cycle nothing else sets it), no later
\* invocation of the closure runs update or render.
C2_NoRedrawAfterExitRequest ==
    [][ control_flow = "Exit"
          => Made(calls', "update") = 0 /\ Made(calls', "render") = 0 ]_vars

\* C2 amended: a close request or an Escape press for the window leaves the
\* control flow Exit, it stays Exit, no further cycle begins (no NewEvents
\* is delivered any more) and the loop ends; the events still due in the
\* cycle are delivered.
C2_ExitEndsCycle ==
    /\ []((IsCloseRequest(event) \/ IsPlainEscapePress(event))
            => control_flow = "Exit")
    /\ [][ control_flow = "Exit"
             => control_flow' = "Exit" /\ event'.kind # "NewEvents" ]_vars
    /\ ((IsCloseRequest(event) \/ IsPlainEscapePress(event)) ~> pc = "Done")

C2_Witness ==
    /\ IsPlainEscapePress(event)
    /\ control_flow = "Exit"
    /\ pc = "Events"

\* C3: a redraw whose render fails with OutOfMemory sets the control flow to
\* Exit, calls no resize and no configure, and leaves the State as it was.
C3_OutOfMemoryExits ==
    [][ (IsRedraw(event') /\ render_result' = "OutOfMemory")
          => /\ control_flow' = "Exit"
             /\ Made(calls', "resize") = 0
             /\ Made(calls', "configure") = 0
             /\ state' = state ]_vars

C3_Witness ==
    /\ IsRedraw(event)
    /\ render_result = "OutOfMemory"
    /\ control_flow = "Exit"

C6_EveryRenderDrawsOnce ==
    Made(calls, "render") > 0
      => /\ Made(calls, "draw_indexed") = Made(calls, "render")
         /\ Made(calls, "submit") = Made(calls, "render")
         /\ Made(calls, "present") = Made(calls, "render")

\* C6 amended: an invocation of render that acquires the texture makes one
\* draw call, one submit and one present; one whose acquisition fails makes
\* none of them and returns the error.
C6_RenderDrawsOnceWhenAcquired ==
    Made(calls, "render") > 0
      => /\ Made(calls, "render") = 1
         /\ render_result \in AcquireResults
         /\ IF render_result = "Ok"
            THEN /\ Made(calls, "draw_indexed") = 1
                 /\ Made(calls, "submit") = 1
                 /\ Made(calls, "present") = 1
            ELSE /\ Made(calls, "draw_indexed") = 0
                 /\ Made(calls, "submit") = 0
                 /\ Made(calls, "present") = 0

C6_Witness ==
    /\ Made(calls, "render") = 1
    /\ render_result = "Ok"
    /\ Made(calls, "draw_indexed") = 1

\* C7: the index sequence has 10 entries, 9 before the padding entry; every
\* entry indexes the vertex sequence; every indexed draw covers the whole
\* sequence, and no triangle it assembles uses the padding entry.
C7_PaddingNotDrawn ==
    /\ Len(INDICES) = 10
    /\ PaddingPos = Len(INDICES)
    /\ \A i \in 1..Len(INDICES) : INDICES[i] \in 0..(Len(VERTICES) - 1)
    /\ state.num_indices = Len(INDICES)
    /\ \A i \in 1..Len(calls) :
          calls[i].op = "draw_indexed"
            => /\ calls[i].a = 0
               /\ calls[i].b = Len(INDICES)
               /\ \A t \in TriangleList(calls[i].a, calls[i].b) :
                     /\ \A j \in 1..3 : t[j] \in 1..Len(INDICES)
                     /\ \A j \in 1..3 : t[j] # PaddingPos

C7_Witness ==
    /\ \E i \in 1..Len(calls) :
          /\ calls[i].op = "draw_indexed"
          /\ Cardinality(TriangleList(calls[i].a, calls[i].b)) = 3

\* C8 as stated: the control flow becomes Exit only on a close request, on
\* a press of Escape with no modifiers, or on an OutOfMemory render.
C8_ExitOnlyPlainEscape ==
    [][ (control_flow # "Exit" /\ control_flow' = "Exit")
          => \/ IsCloseRequest(event')
             \/ IsPlainEscapePress(event')
             \/ IsRedraw(event') /\ render_result' = "OutOfMemory" ]_vars

\* C8 amended: the control flow becomes Exit only on a close request, on a
\* press of Escape (with or without modifiers), or on an OutOfMemory render.
C8_ExitOnlyThreeCauses ==
    [][ (control_flow # "Exit" /\ control_flow' = "Exit")
          => \/ IsCloseRequest(event')
             \/ IsEscapePress(event')
             \/ IsRedraw(event') /\ render_result' = "OutOfMemory" ]_vars

C8_Witness ==
    /\ IsEscapePress(event)
    /\ event.event.modifiers = "SHIFT"
    /\ control_flow = "Exit"
    /\ pc = "Events"

\* C9: every events-cleared event requests a redraw; it is followed by a
\* redraw-requested event; and every redraw-requested event calls update and
\* then render, once each.
C9_ContinuousRedraw ==
    /\ [][ event'.kind = "MainEventsCleared"
             => Made(calls', "request_redraw") = 1 /\ redraw_requested' ]_vars
    /\ (event.kind = "MainEventsCleared"
          ~> (IsRedraw(event) /\ UpdateThenRender(calls)))
    /\ [](IsRedraw(event) => UpdateThenRender(calls))

C9_Witness ==
    /\ IsRedraw(event)
    /\ UpdateThenRender(calls)
    /\ render_result = "Ok"
    /\ control_flow = "Wait"

\* C10: the stored size always equals the configuration's width and height,
\* the surface is configured with the configuration, the configuration keeps
\* the pipeline's format and the Fifo present mode; after a resize event with
\* positive dimensions the size is that of the event and the surface was
\* configured once.
C10_SizeMatchesConfig ==
    /\ state.size = PhysicalSize(state.config.width, state.config.height)
    /\ state.surface = state.config
    /\ state.config.format = state.render_pipeline.format
    /\ state.config.present_mode = "Fifo"
    /\ (IsResizeEvent(event) /\ ~ZeroSized(event))
         => /\ state.size = PhysicalSize(event.event.width, event.event.height)
            /\ Made(calls, "configure") = 1
            /\ \A i \in 1..Len(calls) :
                  calls[i].op = "configure"
                    => /\ calls[i].a = event.event.width
                       /\ calls[i].b = event.event.height

C10_Witness ==
    /\ IsResizeEvent(event)
    /\ ~ZeroSized(event)
    /\ event.event.width # event.event.height
    /\ state.size = PhysicalSize(event.event.width, event.event.height)
    /\ Made(calls, "configure") = 1

\* C11 as stated: once the control flow is Exit, no later invocation of the
\* closure puts it back to Wait or calls render or resize.
C11_NothingRunsAfterExit ==
    [][ control_flow = "Exit"
          => /\ control_flow' = "Exit"
             /\ Made(calls', "render") = 0
             /\ Made(calls', "resize") = 0 ]_vars

\* C11 amended: once the control flow is Exit it stays Exit whatever the
\* closure assigns, and the loop begins no further cycle; the events still
\* due in the cycle are handled as ever (a resize event calls resize, the
\* redraw calls render), and from the redraw of that cycle on no invocation
\* calls render or resize.
C11_ExitIsAbsorbing ==
    [][ control_flow = "Exit"
          => /\ control_flow' = "Exit"
             /\ pc' # "NewEvents"
             /\ event'.kind # "NewEvents"
             /\ (IsRedraw(event) \/ pc \in {"RedrawEventsCleared", "LoopDestroyed"})
                  => /\ Made(calls', "render") = 0
                     /\ Made(calls', "resize") = 0
                     /\ state' = state ]_vars

\* Exit was set by a window event and the redraw of the cycle still rendered.
C11_Witness ==
    /\ control_flow = "Exit"
    /\ IsRedraw(event)
    /\ render_result = "Ok"
    /\ Made(calls, "render") = 1
    /\ pc = "RedrawEventsCleared"

====
